---- MODULE Spec2Model ----
(***************************************************************************)
(* Model of src/generate_invites.py: the batch invitation generator.       *)
(*                                                                         *)
(* Text is modelled as a sequence of one-character strings, so that        *)
(* splitlines(), strip() and replace() are computed character by           *)
(* character.  The file system is modelled by the existence of the names   *)
(* file, the template and the output directory, and by the sets of         *)
(* per-guest documents (.pptx) and images (.jpg) in the output directory,  *)
(* each identified by its file stem.  External processes (libreoffice,     *)
(* zip) are the environment: each invocation picks one of the outcomes     *)
(* subprocess.run can have.                                                *)
(***************************************************************************)
EXTENDS Integers, Sequences, FiniteSets, TLC

VARIABLES
    pc,               \* position of the script (see the actions)
    namesFileExists,  \* NAMES_FILE exists
    namesText,        \* content of NAMES_FILE
    templateExists,   \* TEMPLATE_FILE can be opened
    outDirExists,     \* OUTPUT_DIR exists
    docs,             \* stems of the .pptx files in OUTPUT_DIR
    images,           \* stems of the .jpg files in OUTPUT_DIR
    archives,         \* archive files in the working directory
    names,            \* the list returned by load_names
    i,                \* enumerate index of create_invites' loop (from 1)
    probeResults,     \* outcome of each --version probe made
    convResults,      \* outcome of the conversion command, per guest processed
    calls,            \* external operations performed so far, in order
    log,              \* messages printed so far, in order
    zipResult,        \* outcome of the archive command, "none" before it
    exc,              \* stage whose exception reached the handler of __main__
    exitCode          \* process exit code, -1 while running

vars == <<pc, namesFileExists, namesText, templateExists, outDirExists, docs,
          images, archives, names, i, probeResults, convResults, calls, log,
          zipResult, exc, exitCode>>

----------------------------------------------------------------------------
(* Bounds and input sets *)

MaxLines == 3

\* The lines a names file is made of: empty, blank, plain, padded, with an
\* inner space, with a hyphen.
LineSet ==
    { << >>, <<" ">>, <<"a">>, <<" ", "a", " ">>,
      <<"a", " ", "b">>, <<"a", "-", "b">>, <<"b">> }

RECURSIVE SeqsUpTo(_, _)
SeqsUpTo(S, n) ==
    IF n = 0 THEN { << >> }
    ELSE LET shorter == SeqsUpTo(S, n - 1)
         IN  shorter \cup { Append(s, x) : s \in shorter, x \in S }

RECURSIVE JoinLines(_)
JoinLines(ls) ==
    IF ls = << >> THEN << >>
    ELSE IF Len(ls) = 1 THEN ls[1]
    ELSE ls[1] \o <<"\n">> \o JoinLines(Tail(ls))

FileTexts == { JoinLines(ls) : ls \in SeqsUpTo(LineSet, MaxLines) }

----------------------------------------------------------------------------
(* Module constants of generate_invites.py *)

ZIP_NAME == "invitations.zip"
LABEL == "invitation-label-"   \* stands for the fixed non-ASCII label and '-'

----------------------------------------------------------------------------
(* Text functions *)

LineBreaks == { "\n" }
Whitespace == { " ", "\n" }

FirstBreak(s) ==
    LET ps == { p \in 1..Len(s) : s[p] \in LineBreaks }
    IN  IF ps = {} THEN 0 ELSE CHOOSE p \in ps : \A q \in ps : p <= q

\* str.splitlines(): no empty last line after a final line break.
RECURSIVE splitlines(_)
splitlines(s) ==
    IF s = << >> THEN << >>
    ELSE LET k == FirstBreak(s)
         IN  IF k = 0 THEN << s >>
             ELSE << SubSeq(s, 1, k - 1) >> \o splitlines(SubSeq(s, k + 1, Len(s)))

\* str.strip(): drop leading and trailing whitespace.
RECURSIVE strip(_)
strip(s) ==
    IF s = << >> THEN s
    ELSE IF s[1] \in Whitespace THEN strip(Tail(s))
    ELSE IF s[Len(s)] \in Whitespace THEN strip(SubSeq(s, 1, Len(s) - 1))
    ELSE s

\* name.replace(' ', '-')
replace(s, old, new) ==
    [ p \in 1..Len(s) |-> IF s[p] = old THEN new ELSE s[p] ]

\* The element and the filter of the list comprehension of load_names:
\* [name.strip() for name in f.read().splitlines() if name.strip()]
\* Faulty variant: the lines are filtered but returned as read.
StripLineNone(l) == l

StripLine(l) == strip(l)

KeepLine(l) == strip(l) # << >>

\* load_names: the names, and the message printed when the file is missing.
load_names(exists, text) ==
    IF exists
    THEN LET lines == splitlines(text)
             kept  == SelectSeq(lines, KeepLine)
         IN  [ names |-> [ p \in 1..Len(kept) |-> StripLine(kept[p]) ],
               log   |-> << >> ]
    ELSE [ names |-> << >>, log |-> << "names_file_not_found" >> ]

\* OUTPUT_DIR / f"<label>-{name.replace(' ', '-')}.pptx", without the suffix
OutputStem(name) == <<LABEL>> \o replace(name, " ", "-")

----------------------------------------------------------------------------
(* Outcomes of the external calls.  "raise" is any exception the function *)
(* does not catch (PermissionError, UnicodeDecodeError, IndexError, ...).  *)

ProbeOutcomes == { "ok", "absent", "raise" }
RunOutcomes == { "ok", "nonzero", "absent", "raise" }
StepOutcomes == { "ok", "raise" }

----------------------------------------------------------------------------
(* The functions of the script, as functions of the current state *)

\* Faulty variant: the missing command is reported but the run goes on.
check_dependency_noexit(command, o) ==
    [ calls  |-> Append(calls, [cmd |-> command, arg |-> "--version"]),
      log    |-> IF o = "absent" THEN Append(log, "dependency_missing") ELSE log,
      exit   |-> FALSE,
      raised |-> o = "raise" ]

\* check_dependency: FileNotFoundError prints and calls exit(1); a non-zero
\* exit of the probe is ignored (no check=True).
check_dependency(command, o) ==
    [ calls  |-> Append(calls, [cmd |-> command, arg |-> "--version"]),
      log    |-> IF o = "absent" THEN Append(log, "dependency_missing") ELSE log,
      exit   |-> o = "absent",
      raised |-> o = "raise" ]

\* save_and_convert: the document is unlinked only after a conversion that
\* exits zero; FileNotFoundError and CalledProcessError are printed.
save_and_convert(stem, o) ==
    LET c == Append(calls, [cmd |-> "libreoffice", arg |-> "--convert-to"])
    IN  CASE o = "ok" ->
               [ docs   |-> docs \ { stem },
                 images |-> images \cup { stem },
                 calls  |-> Append(c, [cmd |-> "unlink", arg |-> "pptx"]),
                 log    |-> log,
                 raised |-> FALSE ]
          [] o = "absent" ->
               [ docs |-> docs, images |-> images, calls |-> c,
                 log |-> Append(log, "libreoffice_missing"), raised |-> FALSE ]
          [] o = "nonzero" ->
               [ docs |-> docs, images |-> images, calls |-> c,
                 log |-> Append(log, "conversion_failed"), raised |-> FALSE ]
          [] OTHER ->
               [ docs |-> docs, images |-> images, calls |-> c,
                 log |-> log, raised |-> TRUE ]

\* subprocess.run(["zip", "-r", ZIP_NAME, str(file_path)], check=True) and
\* its two except clauses.
RunZip(o) ==
    LET c == Append(calls, [cmd |-> "zip", arg |-> "-r"])
    IN  CASE o = "ok" ->
               [ archives |-> archives \cup { ZIP_NAME }, calls |-> c,
                 result |-> o, log |-> log, raised |-> FALSE ]
          [] o = "absent" ->
               [ archives |-> archives, calls |-> c,
                 result |-> o, log |-> Append(log, "zip_missing"), raised |-> FALSE ]
          [] o = "nonzero" ->
               [ archives |-> archives, calls |-> c,
                 result |-> o, log |-> Append(log, "zip_failed"), raised |-> FALSE ]
          [] OTHER ->
               [ archives |-> archives, calls |-> c,
                 result |-> o, log |-> log, raised |-> TRUE ]

\* Faulty variant: the directory is not looked at before zip is run.
compress_files_nocheck(dirExists, o) == RunZip(o)

\* compress_files: a missing directory prints a warning and returns; else
\* one zip -r call.
compress_files(dirExists, o) ==
    IF ~dirExists
    THEN [ archives |-> archives, calls |-> calls, result |-> "none",
           log |-> Append(log, "directory_not_found"), raised |-> FALSE ]
    ELSE RunZip(o)

----------------------------------------------------------------------------
(* The script *)

\* except Exception in __main__: print, then the script runs off its end.
Unexpected(stage, c) ==
    /\ exc' = stage
    /\ calls' = c
    /\ log' = Append(log, "unexpected_error")
    /\ pc' = "done"
    /\ exitCode' = 0

\* exit(1): SystemExit is not an Exception, the handler lets it through.
Exit1(c, l) ==
    /\ calls' = c
    /\ log' = l
    /\ pc' = "done"
    /\ exitCode' = 1
    /\ exc' = exc

CheckDependency(stage, command, next) ==
    /\ pc = stage
    /\ \E o \in ProbeOutcomes :
         LET r == check_dependency(command, o)
         IN  /\ probeResults' = Append(probeResults, o)
             /\ IF r.raised THEN Unexpected(stage, r.calls)
                ELSE IF r.exit THEN Exit1(r.calls, r.log)
                ELSE /\ pc' = next
                     /\ calls' = r.calls
                     /\ log' = r.log
                     /\ UNCHANGED <<exc, exitCode>>
    /\ UNCHANGED <<namesFileExists, namesText, templateExists, outDirExists,
                   docs, images, archives, names, i, convResults, zipResult>>

CheckLibreOffice == CheckDependency("check_libreoffice", "libreoffice", "check_zip")

CheckZip == CheckDependency("check_zip", "zip", "load")

\* names = load_names(NAMES_FILE); if not names: exit(1)
Load ==
    /\ pc = "load"
    /\ \E o \in StepOutcomes :
         LET r == load_names(namesFileExists, namesText)
             c == Append(calls, [cmd |-> "open", arg |-> "names.txt"])
         IN  IF o = "raise"
             THEN /\ namesFileExists
                  /\ Unexpected("load", c)
                  /\ names' = names
             ELSE /\ names' = r.names
                  /\ IF r.names = << >>
                     THEN Exit1(c, Append(log \o r.log, "no_names"))
                     ELSE /\ pc' = "create"
                          /\ calls' = c
                          /\ log' = log \o r.log
                          /\ UNCHANGED <<exc, exitCode>>
    /\ UNCHANGED <<namesFileExists, namesText, templateExists, outDirExists,
                   docs, images, archives, i, convResults, zipResult,
                   probeResults>>

\* create_invites up to the loop: OUTPUT_DIR.mkdir(exist_ok=True)
Create ==
    /\ pc = "create"
    /\ \E o \in StepOutcomes :
         LET c == Append(calls, [cmd |-> "mkdir", arg |-> "output-images"])
         IN  IF o = "raise"
             THEN /\ Unexpected("create", c)
                  /\ UNCHANGED <<outDirExists, i>>
             ELSE /\ outDirExists' = TRUE
                  /\ i' = 1
                  /\ pc' = IF Len(names) = 0 THEN "compress" ELSE "render"
                  /\ calls' = c
                  /\ UNCHANGED <<log, exc, exitCode>>
    /\ UNCHANGED <<namesFileExists, namesText, templateExists, docs, images,
                   archives, names, convResults, zipResult, probeResults>>

\* Faulty variant: the loop goes on to the next guest instead of returning.
TemplateMissingContinue ==
    /\ pc' = IF i + 1 > Len(names) THEN "compress" ELSE "render"
    /\ i' = i + 1
    /\ calls' = Append(calls, [cmd |-> "Presentation", arg |-> "invite.pptx"])
    /\ log' = Append(log, "template_not_found")
    /\ UNCHANGED <<docs, exc, exitCode>>

\* except PackageNotFoundError: print and return from create_invites.
TemplateMissing ==
    /\ pc' = "compress"
    /\ calls' = Append(calls, [cmd |-> "Presentation", arg |-> "invite.pptx"])
    /\ log' = Append(log, "template_not_found")
    /\ UNCHANGED <<docs, i, exc, exitCode>>

\* The template opened: replace the placeholder and save the guest's document.
RenderDocument ==
    \E o \in StepOutcomes :
       LET c == Append(calls, [cmd |-> "Presentation", arg |-> "invite.pptx"])
           stem == OutputStem(names[i])
       IN  IF o = "raise"
           THEN /\ Unexpected("render", c)
                /\ UNCHANGED <<docs, i>>
           ELSE /\ docs' = docs \cup { stem }
                /\ calls' = Append(c, [cmd |-> "save", arg |-> "pptx"])
                /\ pc' = "convert"
                /\ UNCHANGED <<i, log, exc, exitCode>>

\* One iteration of create_invites' loop, up to prs.save.
RenderGuest ==
    /\ pc = "render"
    /\ IF templateExists THEN RenderDocument ELSE TemplateMissing
    /\ UNCHANGED <<namesFileExists, namesText, templateExists, outDirExists,
                   images, archives, names, convResults, zipResult, probeResults>>

\* save_and_convert(output_pptx, OUTPUT_DIR) and the step of the loop.
ConvertGuest ==
    /\ pc = "convert"
    /\ \E o \in RunOutcomes :
         LET r == save_and_convert(OutputStem(names[i]), o)
         IN  /\ docs' = r.docs
             /\ images' = r.images
             /\ IF r.raised
                THEN /\ Unexpected("convert", r.calls)
                     /\ UNCHANGED <<i, convResults>>
                ELSE /\ calls' = r.calls
                     /\ log' = r.log
                     /\ convResults' = Append(convResults, o)
                     /\ i' = i + 1
                     /\ pc' = IF i + 1 > Len(names) THEN "compress" ELSE "render"
                     /\ UNCHANGED <<exc, exitCode>>
    /\ UNCHANGED <<namesFileExists, namesText, templateExists, outDirExists,
                   archives, names, zipResult, probeResults>>

\* compress_files(OUTPUT_DIR), then the end of the script.
Compress ==
    /\ pc = "compress"
    /\ \E o \in RunOutcomes :
         LET r == compress_files(outDirExists, o)
         IN  /\ archives' = r.archives
             /\ zipResult' = r.result
             /\ IF r.raised
                THEN Unexpected("compress", r.calls)
                ELSE /\ calls' = r.calls
                     /\ log' = r.log
                     /\ pc' = "done"
                     /\ exitCode' = 0
                     /\ exc' = exc
    /\ UNCHANGED <<namesFileExists, namesText, templateExists, outDirExists,
                   docs, images, names, i, convResults, probeResults>>

Init ==
    /\ pc = "check_libreoffice"
    /\ namesFileExists \in BOOLEAN
    /\ namesText \in (IF namesFileExists THEN FileTexts ELSE { << >> })
    /\ templateExists \in BOOLEAN
    /\ outDirExists \in BOOLEAN
    /\ docs = {}
    /\ images = {}
    /\ archives = {}
    /\ names = << >>
    /\ i = 0
    /\ probeResults = << >>
    /\ convResults = << >>
    /\ calls = << >>
    /\ log = << >>
    /\ zipResult = "none"
    /\ exc = "none"
    /\ exitCode = -1

Next ==
    \/ CheckLibreOffice
    \/ CheckZip
    \/ Load
    \/ Create
    \/ RenderGuest
    \/ ConvertGuest
    \/ Compress

Spec == Init /\ [][Next]_vars

----------------------------------------------------------------------------
(* compress_files called on its own, on any state of the output directory *)

Names == { strip(l) : l \in { x \in LineSet : KeepLine(x) } }

Stems == { OutputStem(n) : n \in Names }

CompressCall ==
    /\ pc = "call"
    /\ \E o \in RunOutcomes :
         LET r == compress_files(outDirExists, o)
         IN  /\ archives' = r.archives
             /\ zipResult' = r.result
             /\ calls' = r.calls
             /\ log' = r.log
             /\ pc' = IF r.raised THEN "raised" ELSE "returned"
    /\ UNCHANGED <<namesFileExists, namesText, templateExists, outDirExists,
                   docs, images, names, i, probeResults, convResults, exc,
                   exitCode>>

InitCompress ==
    /\ pc = "call"
    /\ namesFileExists = FALSE
    /\ namesText = << >>
    /\ templateExists = FALSE
    /\ outDirExists \in BOOLEAN
    /\ docs \in (IF outDirExists THEN SUBSET Stems ELSE { {} })
    /\ images \in (IF outDirExists THEN SUBSET Stems ELSE { {} })
    /\ archives = {}
    /\ names = << >>
    /\ i = 0
    /\ probeResults = << >>
    /\ convResults = << >>
    /\ calls = << >>
    /\ log = << >>
    /\ zipResult = "none"
    /\ exc = "none"
    /\ exitCode = -1

NextCompress == CompressCall

SpecCompress == InitCompress /\ [][NextCompress]_vars

----------------------------------------------------------------------------
(* Vocabulary of the properties *)

CallCount(c, a) ==
    Cardinality({ p \in DOMAIN calls : calls[p] = [cmd |-> c, arg |-> a] })

Logged(m) == \E p \in DOMAIN log : log[p] = m

ConvertCount == CallCount("libreoffice", "--convert-to")

ZipCount == CallCount("zip", "-r")

\* load_names has returned to __main__
LoadReturned == CallCount("open", "names.txt") = 1 /\ exc # "load"

\* create_invites has returned to __main__
CreateReturned == pc = "compress" \/ (pc = "done" /\ zipResult # "none")

Failures == { k \in DOMAIN convResults : convResults[k] \in { "nonzero", "absent" } }

\* The names of a text, by position: a name starts at the first non-blank
\* character of a line and ends at the last non-blank character of that line.
NonBlank(text, p) == text[p] # " " /\ text[p] # "\n"

SameLine(text, p, q) == \A r \in p..q : text[r] # "\n"

NameStarts(text) ==
    { p \in 1..Len(text) :
        /\ NonBlank(text, p)
        /\ \A q \in 1..(p - 1) : SameLine(text, q, p) => ~NonBlank(text, q) }

NameEnd(text, p) ==
    CHOOSE e \in p..Len(text) :
        /\ NonBlank(text, e)
        /\ SameLine(text, p, e)
        /\ \A f \in (e + 1)..Len(text) : SameLine(text, p, f) => ~NonBlank(text, f)

ExpectedNames(text) ==
    LET S == NameStarts(text)
        kth(k) == CHOOSE p \in S : Cardinality({ q \in S : q < p }) = k - 1
    IN  [ k \in 1..Cardinality(S) |-> SubSeq(text, kth(k), NameEnd(text, kth(k))) ]

----------------------------------------------------------------------------
(* Properties *)

\* C1: when the template exists and every conversion succeeded, after
\* create_invites has processed the N names the output directory holds
\* exactly N images and no per-guest document.
C1_AllConvertedGivesNImages ==
    ( /\ templateExists
      /\ CreateReturned
      /\ Len(convResults) = Len(names)
      /\ \A k \in DOMAIN convResults : convResults[k] = "ok" )
    => (Cardinality(images) = Len(names) /\ docs = {})

\* C2: whatever the outcome of the conversion (exit zero, exit non-zero,
\* command absent), the document given to save_and_convert is gone when it
\* returns, so no per-guest document exists outside the conversion step.
C2_DocumentDeletedAfterConversion ==
    (pc # "convert" /\ exc # "convert") => docs = {}

\* C3: when the conversion failed (non-zero exit or command absent) for
\* exactly one of the N guests, create_invites returns normally having run
\* the conversion for all N guests, and N-1 images exist.
C3_OneFailureGivesNMinusOneImages ==
    (Cardinality(Failures) = 1 /\ exc = "none" /\ pc \in { "compress", "done" })
    => ( /\ ConvertCount = Len(names)
         /\ Len(convResults) = Len(names)
         /\ Cardinality(images) = Len(names) - 1 )

\* C4: when the template does not exist the run produces no image and no
\* per-guest document and never runs the conversion command, and
\* create_invites returns at the first guest: the template was opened once,
\* the loop index is still 1 and the failure was printed.
C4_TemplateMissingProducesNothing ==
    ~templateExists =>
        /\ images = {}
        /\ docs = {}
        /\ ConvertCount = 0
        /\ CallCount("save", "pptx") = 0
        /\ (i >= 1 /\ pc # "render") =>
              /\ i = 1
              /\ CallCount("Presentation", "invite.pptx") = 1
              /\ Logged("template_not_found")
              /\ exc = "none" \/ exc = "compress"

C4_Witness ==
    /\ ~templateExists
    /\ pc = "compress"
    /\ Len(names) >= 2
    /\ Logged("template_not_found")

\* C5: a missing template ends the run as FAILED: the archiving stage is
\* never entered, the archiver is never run, and no output directory, image
\* or archive is produced; archiving starts only after every guest was
\* rendered.
C5_TemplateMissingFailsRun ==
    /\ Logged("template_not_found") =>
          /\ pc # "compress"
          /\ ZipCount = 0
          /\ CallCount("mkdir", "output-images") = 0
          /\ images = {}
          /\ archives = {}
    /\ pc = "compress" => CallCount("save", "pptx") = Len(names)

\* C6: the process exits with code 1 whenever no names were loaded or an
\* exception reached the handler of __main__, and with code 0 on full
\* success; failed conversions do not change the exit code.
C6_ExitCodes ==
    pc = "done" =>
        /\ ((LoadReturned /\ names = << >>) \/ exc # "none") => exitCode = 1
        /\ (exc = "none" /\ zipResult = "ok") => exitCode = 0

\* C7: the file name made from a guest name is different for different
\* entries of the name list, so no entry's document or image replaces
\* another's.
C7_DistinctEntriesDistinctFiles ==
    \A j, k \in DOMAIN names :
        j # k => OutputStem(names[j]) # OutputStem(names[k])

\* C8: load_names returns one name per line that is non-empty after
\* trimming, in file order with duplicates kept; every name is trimmed and
\* non-empty; a missing file gives the empty list and a printed message, no
\* exception.
C8_LoadNames ==
    LoadReturned =>
        /\ names = (IF namesFileExists THEN ExpectedNames(namesText) ELSE << >>)
        /\ \A k \in DOMAIN names :
              /\ names[k] # << >>
              /\ names[k][1] # " "
              /\ names[k][Len(names[k])] # " "
              /\ \A p \in DOMAIN names[k] : names[k][p] # "\n"
        /\ ~namesFileExists => (Logged("names_file_not_found") /\ exc = "none")

C8_Witness ==
    /\ LoadReturned
    /\ Len(names) = 3
    /\ names[1] = names[3]
    /\ names[1] # names[2]
    /\ Len(namesText) > Len(names[1]) + Len(names[2]) + Len(names[3]) + 2

\* C9: when a --version probe finds the converter or the archiver absent,
\* the run ends there with exit code 1: the names file was not read, no
\* directory or document was created, no conversion or archive command ran.
C9_DependencyCheckedUpfront ==
    (\E k \in DOMAIN probeResults : probeResults[k] = "absent") =>
        /\ pc = "done"
        /\ exitCode = 1
        /\ probeResults[Len(probeResults)] = "absent"
        /\ \A p \in DOMAIN calls : calls[p].arg = "--version"
        /\ Len(calls) = Len(probeResults)
        /\ names = << >>
        /\ docs = {} /\ images = {} /\ archives = {}

C9_Witness ==
    /\ probeResults = << "ok", "absent" >>
    /\ pc = "done"
    /\ exitCode = 1

\* C10: compress_files on an existing directory (of K images) runs the
\* archiver exactly once and, the archiver exiting zero, leaves exactly one
\* archive; on a directory that does not exist it runs nothing, leaves no
\* archive, prints the warning and returns without raising.
C10_CompressFiles ==
    pc # "call" =>
        IF outDirExists
        THEN /\ ZipCount = 1
             /\ Len(calls) = 1
             /\ zipResult = "ok" => (archives = { ZIP_NAME } /\ pc = "returned")
        ELSE /\ calls = << >>
             /\ archives = {}
             /\ log = << "directory_not_found" >>
             /\ pc = "returned"

C10_Witness ==
    /\ pc = "returned"
    /\ outDirExists
    /\ Cardinality(images) = 2
    /\ zipResult = "ok"
    /\ archives = { ZIP_NAME }

====
